---- MODULE Spec2Model ----
(***************************************************************************)
(* Model of get-rds-credentials.py: a sequential script that checks that   *)
(* aws, fzf and jq are on PATH, lists the RDS endpoints, lets the operator *)
(* pick one with fzf and prints an auth token for it.                      *)
(*                                                                         *)
(* Strings are sequences of atoms.  An atom is a piece of text that no     *)
(* operation of the script looks into; the atoms " " and "\n" are white    *)
(* space and "'" is the single quote, the only characters shlex.split and  *)
(* str.strip treat specially among those the model draws from.             *)
(***************************************************************************)
EXTENDS Integers, Sequences, FiniteSets, TLC

\* ------------------------------------------------------------------ bounds
\* Longest discovery output, in lines.
MaxInstances == 2
\* Capacity of the pipe between the picker's stdout and the script, in atoms.
PipeCap == 2
\* How many times the environment (PATH, the files on disk) changes in a run.
MaxEnvChanges == 1
\* How many times which() is called when it is exercised on its own.
MaxCalls == 3

\* ----------------------------------------------------------- small helpers
Last(s) == s[Len(s)]

Range(s) == {s[i] : i \in 1..Len(s)}

IsSpace(c) == c \in {" ", "\n"}

\* What which() returns: a path, or Python's None.
None == [found |-> FALSE, path |-> <<>>]

Found(p) == [found |-> TRUE, path |-> p]

\* ------------------------------------------------------- program constants
\* REQUIRED_COMMANDS, in the insertion order a dict iterates in.
REQUIRED_COMMANDS == <<"aws", "fzf", "jq">>

Description(command) ==
    CASE command = "aws" -> <<"awscli is missing">>
      [] command = "fzf" -> <<"fzf is missing">>
      [] command = "jq"  -> <<"jq is missing">>

Commands == Range(REQUIRED_COMMANDS)

MissingHeader == <<"You must install a set of commands for this script to work.">>

\* "You must specify a username e.g.: {} username".format(sys.argv[0])
UsageMessage(argv0) == <<"You must specify a username e.g.: ">> \o argv0 \o <<" username">>

\* ------------------------------------------------------------ pure functions
\* str.split(os.pathsep): the pieces between the ":" atoms, empty pieces kept.
RECURSIVE SplitPathsep(_, _, _)
SplitPathsep(s, cur, acc) ==
    IF s = <<>> THEN Append(acc, cur)
    ELSE IF Head(s) = ":" THEN SplitPathsep(Tail(s), <<>>, Append(acc, cur))
    ELSE SplitPathsep(Tail(s), Append(cur, Head(s)), acc)

\* os.path.join(path, command).
Join(path, command) ==
    IF path = <<>> THEN <<command>>
    ELSE IF Last(path) = "/" THEN Append(path, command)
    ELSE path \o <<"/", command>>

\* The loop of which(): the first directory of paths that holds the command.
RECURSIVE FirstExisting(_, _, _)
FirstExisting(paths, command, fs) ==
    IF paths = <<>> THEN None
    ELSE IF Join(Head(paths), command) \in fs THEN Found(Join(Head(paths), command))
    ELSE FirstExisting(Tail(paths), command, fs)

\* shlex.quote: a string of safe characters is left alone, any other is
\* wrapped in single quotes (the strings quoted here hold no single quote).
ShlexQuote(s) ==
    IF s # <<>> /\ \A i \in 1..Len(s) : ~IsSpace(s[i]) /\ s[i] # "'"
    THEN s
    ELSE <<"'">> \o s \o <<"'">>

\* The outcome of shlex.split: the tokens, or ValueError("No closing quotation").
ShlexError == [raised |-> TRUE, tokens |-> <<>>]

ShlexTokens(t) == [raised |-> FALSE, tokens |-> t]

\* shlex.split (POSIX mode): split at white space outside single quotes, the
\* quotes removed; an unclosed quote raises ValueError.
RECURSIVE ShlexScan(_, _, _, _, _)
ShlexScan(s, cur, inTok, inQuote, acc) ==
    IF s = <<>> THEN
        IF inQuote THEN ShlexError
        ELSE IF inTok THEN ShlexTokens(Append(acc, cur)) ELSE ShlexTokens(acc)
    ELSE LET c == Head(s) r == Tail(s) IN
        IF inQuote THEN
            IF c = "'" THEN ShlexScan(r, cur, TRUE, FALSE, acc)
            ELSE ShlexScan(r, Append(cur, c), TRUE, TRUE, acc)
        ELSE IF c = "'" THEN ShlexScan(r, cur, TRUE, TRUE, acc)
        ELSE IF IsSpace(c) THEN
            IF inTok THEN ShlexScan(r, <<>>, FALSE, FALSE, Append(acc, cur))
            ELSE ShlexScan(r, <<>>, FALSE, FALSE, acc)
        ELSE ShlexScan(r, Append(cur, c), TRUE, FALSE, acc)

ShlexSplit(s) == ShlexScan(s, <<>>, FALSE, FALSE, <<>>)

\* str.strip(): white space removed at both ends.
RECURSIVE LStrip(_)
LStrip(s) == IF s # <<>> /\ IsSpace(Head(s)) THEN LStrip(Tail(s)) ELSE s

RECURSIVE RStrip(_)
RStrip(s) ==
    IF s # <<>> /\ IsSpace(Last(s)) THEN RStrip(SubSeq(s, 1, Len(s) - 1)) ELSE s

Strip(s) == RStrip(LStrip(s))

\* "{}".format(port) of an integer: its decimal digits.
Digit(d) == <<"0", "1", "2", "3", "4", "5", "6", "7", "8", "9">>[d + 1]

RECURSIVE IntToStr(_)
IntToStr(n) ==
    IF n < 10 THEN <<Digit(n)>> ELSE Append(IntToStr(n \div 10), Digit(n % 10))

\* GET_CREDENTIALS_COMMAND.format(aws=..., hostname=..., port=..., username=...).
GET_CREDENTIALS_COMMAND(aws, hostname, port, username) ==
    aws \o <<" ", "rds", " ", "generate-db-auth-token", " ", "--hostname", " ">>
        \o hostname \o <<" ", "--port", " ">> \o IntToStr(port)
        \o <<" ", "--username", " ">> \o username
        \o <<" ", "--region", " ", "eu-central-1", " ">>

\* The list the picker is fed: "{}\n".format(instance["Address"]) per instance.
AddressLinesReversed(insts) ==
    [i \in 1..Len(insts) |-> Append(insts[Len(insts) + 1 - i].Address, "\n")]

AddressLines(insts) ==
    [i \in 1..Len(insts) |-> Append(insts[i].Address, "\n")]

\* [instance for instance in instances if instance["Address"] == instance_name]
MatchingLastFirst(insts, name) ==
    LET IsMatch(r) == r.Address = name
        m == SelectSeq(insts, IsMatch)
    IN  [i \in 1..Len(m) |-> m[Len(m) + 1 - i]]

MatchingOrAll(insts, name) ==
    LET IsMatch(r) == r.Address = name
        m == SelectSeq(insts, IsMatch)
    IN  IF m = <<>> THEN insts ELSE m

Matching(insts, name) ==
    LET IsMatch(r) == r.Address = name IN SelectSeq(insts, IsMatch)

\* subprocess.check_output raises CalledProcessError on a non-zero status.
IgnoresReturnCode(status) == FALSE

RaisesCalledProcessError(status) == status # 0

\* ------------------------------------------------- the inputs of a run
D1 == <<"/usr/bin">>

D2 == <<"/opt/bin">>

\* The values PATH takes when it is set.
PathValues == {D2 \o <<":">> \o D1, D1}

\* The files that may exist on disk.
FileUniverse == {Join(D1, c) : c \in Commands} \cup {Join(D2, "aws")}

\* sys.argv is the script's name, followed by the username or by nothing.  A
\* username may hold white space or a quote.
Script == <<"get-rds-credentials.py">>

Usernames == {<<"bob">>, <<"a", " ", "b">>, <<"o", "'", "b">>}

\* The endpoints the inventory command may report, and a line that is no JSON.
Records ==
    { [Address |-> <<"db1">>, Port |-> 5432],
      [Address |-> <<"db1">>, Port |-> 3306],
      [Address |-> <<"db2">>, Port |-> 5432] }

Lines == [json : {TRUE}, value : Records]
            \cup {[json |-> FALSE, value |-> [Address |-> <<>>, Port |-> 0]]}

RECURSIVE SeqsUpTo(_, _)
SeqsUpTo(S, n) ==
    IF n = 0 THEN {<<>>}
    ELSE LET shorter == SeqsUpTo(S, n - 1)
         IN  shorter \cup {Append(q, x) : q \in shorter, x \in S}

\* An output longer than the pipe holds: db1 followed by PipeCap newlines.
LongOutput == <<"db1">> \o [i \in 1..PipeCap |-> "\n"]

\* What the picker may print: nothing (the operator cancelled), a line that
\* was offered, a line that was not, and the long output.
RawOutputs ==
    { <<>>, <<"db1", "\n">>, <<"db2", "\n">>, <<"db9", "\n">>, LongOutput }

TokenOutput == <<"token", "\n">>

\* ------------------------------------------------------------------- state
VARIABLES
    argv,             \* sys.argv
    pathSet, PATH,    \* os.environ: whether PATH is set, and its value
    files,            \* the paths os.path.exists is true of
    envChanges,       \* how many times the environment has changed
    cache,            \* the lru_cache of which(): command -> result
    whichLog,         \* every call of which() that returned: <<command, result,
                      \* whether a search at that moment gives another result>>
    pc,               \* where the script is
    idx,              \* the position of the loop the script is in
    missing_commands, \* ensure_commands' list
    stderr, stdout,   \* what the script has printed
    exitCode,         \* -1 while the script runs
    error,            \* the unhandled exception that ended the run, or ""
    started,          \* the subprocesses started, in order
    alive,            \* the subprocesses that have not exited
    dOut, dStatus,    \* the discovery command's output lines and exit status
    instances,        \* main's list
    stdinBuf,         \* process.stdin's buffer (a BufferedWriter)
    stdinData,        \* what has reached the picker's stdin
    stdinClosed,      \* process.stdin.close() has returned or raised
    pkPhase,          \* the picker: "none", "reading", "writing", "exited"
    pkOut,            \* what the picker has still to print
    pkStatus,         \* the picker's exit status
    stdoutPipe,       \* the picker's output not yet read by the script
    instance_name,    \* main's instance_name: <<>> or <<string>>
    instance,         \* main's instance: <<>> or <<record>>
    tokenArgv,        \* the argv of the token command
    tStatus, tOut     \* the token command's exit status and output

envVars == <<pathSet, PATH, files, envChanges>>

whichVars == <<cache, whichLog>>

ioVars == <<stderr, stdout, exitCode, error>>

procVars == <<started, alive>>

discVars == <<dOut, dStatus, instances>>

pickVars == <<stdinBuf, stdinData, stdinClosed, pkPhase, pkOut, pkStatus, stdoutPipe>>

tokVars == <<instance_name, instance, tokenArgv, tStatus, tOut>>

vars == <<argv, envVars, whichVars, pc, idx, missing_commands, ioVars, procVars,
          discVars, pickVars, tokVars>>

Init ==
    /\ argv \in {<<Script>>} \cup {<<Script, u>> : u \in Usernames}
    /\ pathSet \in BOOLEAN
    /\ PATH \in (IF pathSet THEN PathValues ELSE {<<>>})
    /\ files \in SUBSET FileUniverse
    /\ envChanges = 0
    /\ cache = <<>>
    /\ whichLog = <<>>
    /\ pc = "start"
    /\ idx = 1
    /\ missing_commands = <<>>
    /\ stderr = <<>>
    /\ stdout = <<>>
    /\ exitCode = -1
    /\ error = ""
    /\ started = <<>>
    /\ alive = {}
    /\ dOut = <<>>
    /\ dStatus = -1
    /\ instances = <<>>
    /\ stdinBuf = <<>>
    /\ stdinData = <<>>
    /\ stdinClosed = FALSE
    /\ pkPhase = "none"
    /\ pkOut = <<>>
    /\ pkStatus = -1
    /\ stdoutPipe = <<>>
    /\ instance_name = <<>>
    /\ instance = <<>>
    /\ tokenArgv = <<>>
    /\ tStatus = -1
    /\ tOut = <<>>

\* ------------------------------------------------------------------ which
\* which() without its lru_cache: the search runs on every call.
WhichUncached(command) == FirstExisting(SplitPathsep(PATH, <<>>, <<>>), command, files)

\* What which(command) returns: the cached result if there is one, else the
\* result of the search.
WhichResult(command) ==
    IF command \in DOMAIN cache THEN cache[command]
    ELSE FirstExisting(SplitPathsep(PATH, <<>>, <<>>), command, files)

\* os.environ["PATH"] raises KeyError; a cached command never gets there.
WhichRaises(command) == command \notin DOMAIN cache /\ ~pathSet

\* The cache and the log after which() has returned for each of commands.
RECURSIVE CacheAfter(_, _)
CacheAfter(c, commands) ==
    IF commands = <<>> THEN c
    ELSE LET cmd == Head(commands)
             r == WhichResult(cmd)
         IN  CacheAfter([x \in DOMAIN c \cup {cmd} |-> IF x = cmd THEN r ELSE c[x]],
                        Tail(commands))

\* A search for the command now would not give this result.
Stale(command, result) ==
    ~pathSet \/ FirstExisting(SplitPathsep(PATH, <<>>, <<>>), command, files) # result

Called(commands) ==
    /\ cache' = CacheAfter(cache, commands)
    /\ whichLog' = whichLog \o [i \in 1..Len(commands) |->
                        <<commands[i], WhichResult(commands[i]),
                          Stale(commands[i], WhichResult(commands[i]))>>]

\* get_commands_paths(commands) raises: KeyError from which(), or TypeError
\* from shlex.quote(None).
PathsRaise(commands) ==
    \E i \in 1..Len(commands) :
        WhichRaises(commands[i]) \/ ~WhichResult(commands[i]).found

\* process.wait() and check_output return at once, whether or not the
\* subprocess has exited.
ReturnsAtOnce(process) == TRUE

\* process.wait() and check_output return when the subprocess has exited.
HasExited(process) == process \notin alive

\* ------------------------------------------------------- the script's steps
\* An unhandled exception: the traceback goes to stderr, the exit status is 1.
Raise(exception) ==
    /\ pc' = "exited"
    /\ exitCode' = 1
    /\ error' = exception
    /\ stderr' = stderr \o <<<<"Traceback (most recent call last):">>, <<exception>>>>
    /\ UNCHANGED stdout

\* The test of the username is left out.
ArgumentNeverMissing == FALSE

\* len(sys.argv) < 2
ArgumentMissing == Len(argv) < 2

\* if __name__ == "__main__": the usage message, or main(sys.argv[1]).
Main ==
    /\ pc = "start"
    /\ IF ArgumentMissing
       THEN /\ stderr' = Append(stderr, UsageMessage(argv[1]))
            /\ exitCode' = 1
            /\ pc' = "exited"
            /\ UNCHANGED <<stdout, error>>
       ELSE /\ pc' = "ensure_commands"
            /\ UNCHANGED ioVars
    /\ UNCHANGED <<argv, envVars, whichVars, idx, missing_commands, procVars,
                   discVars, pickVars, tokVars>>

\* The description ensure_commands appends for a command: only the first
\* missing command is reported.
AppendFirstMissing(command) ==
    IF missing_commands = <<>> THEN <<Description(command)>> ELSE missing_commands

AppendMissing(command) == Append(missing_commands, Description(command))

\* One round of ensure_commands' loop.
EnsureWhich ==
    /\ pc = "ensure_commands"
    /\ idx <= Len(REQUIRED_COMMANDS)
    /\ LET command == REQUIRED_COMMANDS[idx] IN
        IF WhichRaises(command)
        THEN /\ Raise("KeyError")
             /\ UNCHANGED <<whichVars, idx, missing_commands>>
        ELSE /\ Called(<<command>>)
             /\ missing_commands' = IF WhichResult(command).found
                                    THEN missing_commands
                                    ELSE AppendMissing(command)
             /\ idx' = idx + 1
             /\ UNCHANGED <<pc, ioVars>>
    /\ UNCHANGED <<argv, envVars, procVars, discVars, pickVars, tokVars>>

\* if missing_commands: print to stderr and sys.exit(1).
EnsureCheck ==
    /\ pc = "ensure_commands"
    /\ idx > Len(REQUIRED_COMMANDS)
    /\ IF missing_commands # <<>>
       THEN /\ stderr' = stderr \o <<MissingHeader>> \o missing_commands
            /\ exitCode' = 1
            /\ pc' = "exited"
            /\ UNCHANGED <<stdout, error>>
       ELSE /\ pc' = "get_instances"
            /\ UNCHANGED ioVars
    /\ UNCHANGED <<argv, envVars, whichVars, idx, missing_commands, procVars,
                   discVars, pickVars, tokVars>>

\* get_instances up to the start of the inventory command.
GetInstances ==
    /\ pc = "get_instances"
    /\ IF PathsRaise(<<"aws", "jq">>)
       THEN /\ Raise("Error in get_commands_paths")
            /\ UNCHANGED <<whichVars, procVars>>
       ELSE /\ Called(<<"aws", "jq">>)
            /\ started' = Append(started, "discovery")
            /\ alive' = alive \cup {"discovery"}
            /\ pc' = "check_output_instances"
            /\ UNCHANGED ioVars
    /\ UNCHANGED <<argv, envVars, idx, missing_commands, discVars, pickVars, tokVars>>

\* check_output returns once the inventory command has exited.
CheckOutputInstances ==
    /\ pc = "check_output_instances"
    /\ HasExited("discovery")
    /\ IF RaisesCalledProcessError(dStatus)
       THEN /\ Raise("CalledProcessError")
            /\ UNCHANGED idx
       ELSE /\ pc' = "parse"
            /\ idx' = 1
            /\ UNCHANGED ioVars
    /\ UNCHANGED <<argv, envVars, whichVars, missing_commands, procVars,
                   discVars, pickVars, tokVars>>

\* One round of get_instances' loop: json.loads of the next line.
ParseLine ==
    /\ pc = "parse"
    /\ idx <= Len(dOut)
    /\ IF dOut[idx].json
       THEN /\ instances' = Append(instances, dOut[idx].value)
            /\ idx' = idx + 1
            /\ UNCHANGED <<pc, ioVars>>
       ELSE /\ Raise("JSONDecodeError")
            /\ UNCHANGED <<instances, idx>>
    /\ UNCHANGED <<argv, envVars, whichVars, missing_commands, procVars,
                   dOut, dStatus, pickVars, tokVars>>

\* choose_instances up to Popen: the picker is started.
ChooseInstances ==
    /\ pc = "parse"
    /\ idx > Len(dOut)
    /\ IF PathsRaise(<<"fzf">>)
       THEN /\ Raise("Error in get_commands_paths")
            /\ UNCHANGED <<whichVars, procVars, pkPhase>>
       ELSE /\ Called(<<"fzf">>)
            /\ started' = Append(started, "picker")
            /\ alive' = alive \cup {"picker"}
            /\ pkPhase' = "reading"
            /\ pc' = "writelines"
            /\ UNCHANGED ioVars
    /\ UNCHANGED <<argv, envVars, idx, missing_commands, discVars, stdinBuf,
                   stdinData, stdinClosed, pkOut, pkStatus, stdoutPipe, tokVars>>

\* process.stdin.writelines(...): the lines go into the stream's buffer.
WriteLines ==
    /\ pc = "writelines"
    /\ stdinBuf' = stdinBuf \o AddressLines(instances)
    /\ pc' = "close"
    /\ UNCHANGED <<argv, envVars, whichVars, idx, missing_commands, ioVars,
                   procVars, discVars, stdinData, stdinClosed, pkPhase, pkOut,
                   pkStatus, stdoutPipe, tokVars>>

\* The stream is left open: the picker never sees the end of its input.
LeavesStdinOpen == FALSE

\* process.stdin.close() closes the script's end of the pipe.
ClosesStdin == TRUE

\* process.stdin.close(): the buffer is flushed into the pipe and the pipe is
\* closed; the flush raises BrokenPipeError when the picker has gone.
CloseStdin ==
    /\ pc = "close"
    /\ stdinClosed' = ClosesStdin
    /\ IF stdinBuf # <<>> /\ "picker" \notin alive
       THEN /\ Raise("BrokenPipeError")
            /\ UNCHANGED <<stdinBuf, stdinData>>
       ELSE /\ stdinData' = stdinData \o stdinBuf
            /\ stdinBuf' = <<>>
            /\ pc' = "wait"
            /\ UNCHANGED ioVars
    /\ UNCHANGED <<argv, envVars, whichVars, idx, missing_commands, procVars,
                   discVars, pkPhase, pkOut, pkStatus, stdoutPipe, tokVars>>

\* process.wait(): the exit status is not looked at.
Wait ==
    /\ pc = "wait"
    /\ HasExited("picker")
    /\ pc' = "read"
    /\ UNCHANGED <<argv, envVars, whichVars, idx, missing_commands, ioVars,
                   procVars, discVars, pickVars, tokVars>>

\* return process.stdout.read().decode().strip()
ReadStdout ==
    /\ pc = "read"
    /\ instance_name' = <<Strip(stdoutPipe)>>
    /\ stdoutPipe' = <<>>
    /\ pc' = "select"
    /\ UNCHANGED <<argv, envVars, whichVars, idx, missing_commands, ioVars,
                   procVars, discVars, stdinBuf, stdinData, stdinClosed, pkPhase,
                   pkOut, pkStatus, instance, tokenArgv, tStatus, tOut>>

\* instance, *_ = [...]: the first match, ValueError when there is none.
SelectInstance ==
    /\ pc = "select"
    /\ LET matches == Matching(instances, instance_name[1]) IN
        IF matches = <<>>
        THEN /\ Raise("ValueError")
             /\ UNCHANGED instance
        ELSE /\ instance' = <<Head(matches)>>
             /\ pc' = "print_credentials"
             /\ UNCHANGED ioVars
    /\ UNCHANGED <<argv, envVars, whichVars, idx, missing_commands, procVars,
                   discVars, pickVars, instance_name, tokenArgv, tStatus, tOut>>

\* print_credentials up to the start of the token command.
PrintCredentials ==
    /\ pc = "print_credentials"
    /\ IF PathsRaise(<<"aws">>)
       THEN /\ Raise("Error in get_commands_paths")
            /\ UNCHANGED <<whichVars, procVars, tokenArgv>>
       ELSE LET command == GET_CREDENTIALS_COMMAND(
                               ShlexQuote(WhichResult("aws").path),
                               instance[1].Address, instance[1].Port, argv[2])
                split == ShlexSplit(command)
            IN  /\ Called(<<"aws">>)
                /\ IF split.raised
                   THEN /\ Raise("ValueError")
                        /\ UNCHANGED <<procVars, tokenArgv>>
                   ELSE /\ tokenArgv' = split.tokens
                        /\ started' = Append(started, "token")
                        /\ alive' = alive \cup {"token"}
                        /\ pc' = "check_output_token"
                        /\ UNCHANGED ioVars
    /\ UNCHANGED <<argv, envVars, idx, missing_commands, discVars, pickVars,
                   instance_name, instance, tStatus, tOut>>

\* check_output returns once the token command has exited; print(output).
CheckOutputToken ==
    /\ pc = "check_output_token"
    /\ HasExited("token")
    /\ IF RaisesCalledProcessError(tStatus)
       THEN Raise("CalledProcessError")
       ELSE /\ stdout' = stdout \o tOut \o <<"\n">>
            /\ exitCode' = 0
            /\ pc' = "exited"
            /\ UNCHANGED <<stderr, error>>
    /\ UNCHANGED <<argv, envVars, whichVars, idx, missing_commands, procVars,
                   discVars, pickVars, tokVars>>

\* ------------------------------------------------------ the external tools
\* The inventory command (sh -c 'aws ... | jq ...') prints its lines and exits.
DiscoveryRun ==
    /\ "discovery" \in alive
    /\ \E status \in {0, 1} :
       \E out \in (IF status = 0 THEN SeqsUpTo(Lines, MaxInstances) ELSE {<<>>}) :
            /\ dStatus' = status
            /\ dOut' = out
    /\ alive' = alive \ {"discovery"}
    /\ UNCHANGED <<argv, envVars, whichVars, pc, idx, missing_commands, ioVars,
                   started, instances, pickVars, tokVars>>

\* The picker exits before it has seen the end of its input, printing nothing.
PickerDies ==
    /\ pkPhase = "reading"
    /\ ~stdinClosed
    /\ pkPhase' = "exited"
    /\ \E status \in {0, 1} : pkStatus' = status
    /\ alive' = alive \ {"picker"}
    /\ UNCHANGED <<argv, envVars, whichVars, pc, idx, missing_commands, ioVars,
                   started, discVars, stdinBuf, stdinData, stdinClosed, pkOut,
                   stdoutPipe, tokVars>>

\* The picker has read its input to the end; the operator chooses.
PickerChoose ==
    /\ pkPhase = "reading"
    /\ stdinClosed
    /\ \E out \in RawOutputs : pkOut' = out
    /\ pkPhase' = "writing"
    /\ UNCHANGED <<argv, envVars, whichVars, pc, idx, missing_commands, ioVars,
                   procVars, discVars, stdinBuf, stdinData, stdinClosed, pkStatus,
                   stdoutPipe, tokVars>>

\* The picker writes to its stdout, and blocks while the pipe is full.
PickerWrite ==
    /\ pkPhase = "writing"
    /\ pkOut # <<>>
    /\ Len(stdoutPipe) < PipeCap
    /\ stdoutPipe' = Append(stdoutPipe, Head(pkOut))
    /\ pkOut' = Tail(pkOut)
    /\ UNCHANGED <<argv, envVars, whichVars, pc, idx, missing_commands, ioVars,
                   procVars, discVars, stdinBuf, stdinData, stdinClosed, pkPhase,
                   pkStatus, tokVars>>

\* The picker exits once it has written all its output.
PickerExit ==
    /\ pkPhase = "writing"
    /\ pkOut = <<>>
    /\ \E status \in {0, 1} : pkStatus' = status
    /\ pkPhase' = "exited"
    /\ alive' = alive \ {"picker"}
    /\ UNCHANGED <<argv, envVars, whichVars, pc, idx, missing_commands, ioVars,
                   started, discVars, stdinBuf, stdinData, stdinClosed, pkOut,
                   stdoutPipe, tokVars>>

\* The token command prints the token, or fails.
TokenRun ==
    /\ "token" \in alive
    /\ \E status \in {0, 1} :
            /\ tStatus' = status
            /\ tOut' = IF status = 0 THEN TokenOutput ELSE <<>>
    /\ alive' = alive \ {"token"}
    /\ UNCHANGED <<argv, envVars, whichVars, pc, idx, missing_commands, ioVars,
                   started, discVars, pickVars, instance_name, instance, tokenArgv>>

\* ---------------------------------------------------------- the environment
\* A file appears on disk or disappears while the script runs.
FileChange ==
    /\ pc # "exited"
    /\ envChanges < MaxEnvChanges
    /\ \E f \in FileUniverse :
            files' = IF f \in files THEN files \ {f} ELSE files \cup {f}
    /\ envChanges' = envChanges + 1
    /\ UNCHANGED <<argv, pathSet, PATH, whichVars, pc, idx, missing_commands,
                   ioVars, procVars, discVars, pickVars, tokVars>>

\* PATH is set to another value, or unset, while the script runs.
PathChange ==
    /\ pc # "exited"
    /\ envChanges < MaxEnvChanges
    /\ \/ /\ pathSet' = TRUE
          /\ PATH' \in PathValues \ {PATH}
       \/ /\ pathSet
          /\ pathSet' = FALSE
          /\ PATH' = <<>>
    /\ envChanges' = envChanges + 1
    /\ UNCHANGED <<argv, files, whichVars, pc, idx, missing_commands,
                   ioVars, procVars, discVars, pickVars, tokVars>>

\* -------------------------------------------------------- the specification
ScriptStep ==
    \/ Main
    \/ EnsureWhich
    \/ EnsureCheck
    \/ GetInstances
    \/ CheckOutputInstances
    \/ ParseLine
    \/ ChooseInstances
    \/ WriteLines
    \/ CloseStdin
    \/ Wait
    \/ ReadStdout
    \/ SelectInstance
    \/ PrintCredentials
    \/ CheckOutputToken

ToolStep ==
    \/ DiscoveryRun
    \/ PickerDies
    \/ PickerChoose
    \/ PickerWrite
    \/ PickerExit
    \/ TokenRun

EnvStep == FileChange \/ PathChange

Next == ScriptStep \/ ToolStep \/ EnvStep

Spec == Init /\ [][Next]_vars

\* Runs in an environment that stays as it was at the start, in which the
\* script takes its next step whenever it can; nothing is assumed of the tools.
StaticNext == ScriptStep \/ ToolStep

FairSpec == Init /\ [][StaticNext]_vars /\ WF_vars(ScriptStep)

\* which() on its own: any command is resolved at any moment, any number of
\* times, while the environment changes.  A KeyError ends the run, as it does
\* at every call site of the script.
CallWhich ==
    /\ pc = "start"
    /\ Len(whichLog) < MaxCalls
    /\ \E command \in Commands :
         IF WhichRaises(command)
         THEN /\ Raise("KeyError")
              /\ UNCHANGED whichVars
         ELSE /\ Called(<<command>>)
              /\ UNCHANGED <<pc, ioVars>>
    /\ UNCHANGED <<argv, envVars, idx, missing_commands, procVars, discVars,
                   pickVars, tokVars>>

WhichNext == CallWhich \/ FileChange \/ PathChange

WhichSpec == Init /\ [][WhichNext]_vars

\* ------------------------------------------------------------------ claims
StartedSet == Range(started)

Exited == pc = "exited"

\* The commands which() found absent, and their descriptions in the order of
\* REQUIRED_COMMANDS.
Missing == {c \in DOMAIN cache : ~cache[c].found}

MissingLines ==
    LET IsMissing(c) == c \in Missing
        m == SelectSeq(REQUIRED_COMMANDS, IsMissing)
    IN  [i \in 1..Len(m) |-> Description(m[i])]

\* C1: when some of aws, fzf and jq are not found on the search path, the run
\* writes one line for each of them to stderr and exits with code 1, and no
\* subprocess is started.
C1_Preflight ==
    /\ Missing # {} => started = <<>> /\ alive = {}
    /\ (Exited /\ DOMAIN cache = Commands /\ Missing # {}) =>
            /\ exitCode = 1
            /\ error = ""
            /\ stdout = <<>>
            /\ stderr = <<MissingHeader>> \o MissingLines

C1_Witness ==
    /\ Exited
    /\ DOMAIN cache = Commands
    /\ Cardinality(Missing) >= 2
    /\ Len(stderr) = 1 + Cardinality(Missing)

\* C2 as stated: when the discovery, the picker or the token subprocess exits
\* with a non-zero status, the run ends with a non-zero status and prints no
\* token.
C2_AnyFailureStopsRun ==
    (dStatus > 0 \/ pkStatus > 0 \/ tStatus > 0) =>
        /\ stdout = <<>>
        /\ Exited => exitCode # 0

\* C2, amended: when the discovery or the token subprocess exits with a
\* non-zero status, the run ends with a non-zero status and prints no token;
\* the picker's status is not looked at, and a picker that exits non-zero ends
\* the run that way only when its trimmed output is no discovered address.
C2_CheckedFailureStopsRun ==
    /\ (dStatus > 0 \/ tStatus > 0) =>
            /\ stdout = <<>>
            /\ Exited => exitCode # 0 /\ error = "CalledProcessError"
    /\ ( /\ pkStatus > 0
         /\ instance_name # <<>>
         /\ \A i \in 1..Len(instances) : instances[i].Address # instance_name[1] ) =>
            /\ stdout = <<>>
            /\ Exited => exitCode # 0

C2_Witness ==
    /\ Exited
    /\ tStatus > 0
    /\ pkStatus = 0
    /\ dStatus = 0

\* The first record of the discovery output with the selected address.
IsFirstMatch(r, name) ==
    \E i \in 1..Len(dOut) :
        /\ dOut[i].json
        /\ dOut[i].value = r
        /\ r.Address = name
        /\ \A j \in 1..(i - 1) : dOut[j].value.Address # name

\* C3: when the selected string is the address of a discovered record, the
\* record passed to token issuance has that address and is the first such
\* record in discovery order, and its port is the port used.
C3_LookupFirstMatch ==
    /\ instance # <<>> =>
            /\ instance_name # <<>>
            /\ IsFirstMatch(instance[1], instance_name[1])
    /\ ( /\ pc \in {"print_credentials", "check_output_token"}
         /\ \E i \in 1..Len(instances) : instances[i].Address = instance_name[1] ) =>
            instance # <<>>
    /\ "token" \in StartedSet =>
            /\ tokenArgv[5] = instance_name[1]
            /\ \E r \in Records :
                    /\ IsFirstMatch(r, instance_name[1])
                    /\ tokenArgv[7] = IntToStr(r.Port)

C3_Witness ==
    /\ "token" \in StartedSet
    /\ \E i, j \in 1..Len(instances) :
            /\ i < j
            /\ instances[i].Address = instances[j].Address
            /\ instances[i].Port # instances[j].Port
            /\ instances[i].Address = instance_name[1]

\* C4: when the picker's trimmed output is the address of no discovered
\* record, the lookup fails with an unhandled error, the token command is
\* never started and the run ends with a non-zero status.
C4_LookupMiss ==
    ( /\ instance_name # <<>>
      /\ \A i \in 1..Len(instances) : instances[i].Address # instance_name[1] ) =>
        /\ pc \in {"select", "exited"}
        /\ "token" \notin StartedSet
        /\ instance = <<>>
        /\ stdout = <<>>
        /\ Exited => exitCode # 0 /\ error = "ValueError"

C4_Witness ==
    /\ Exited
    /\ error = "ValueError"
    /\ instance_name = << <<>> >>
    /\ instances # <<>>
    /\ "token" \notin StartedSet

\* C5: the lines written to the picker's input are the discovered records'
\* addresses, one line per record, in discovery order, and the input is
\* closed after the last line and before the script waits for the picker.
C5_PickerInputOrder ==
    /\ ~stdinClosed => stdinData = <<>>
    /\ pc \in {"wait", "read", "select", "print_credentials", "check_output_token"}
            => stdinClosed
    /\ (stdinClosed /\ error # "BrokenPipeError") =>
            /\ stdinBuf = <<>>
            /\ Len(stdinData) = Len(dOut)
            /\ \A i \in 1..Len(dOut) :
                    stdinData[i] = dOut[i].value.Address \o <<"\n">>
    /\ pkPhase = "writing" => stdinClosed

C5_Witness ==
    /\ pc = "wait"
    /\ Len(stdinData) = 2
    /\ stdinData[1] # stdinData[2]

\* C6: the token command is invoked with the selected record's address as
\* hostname, its port, the supplied username as a single parameter value and
\* the region eu-central-1, and with no other parameter.
C6_TokenArgv ==
    "token" \in StartedSet =>
        tokenArgv = << cache["aws"].path, <<"rds">>, <<"generate-db-auth-token">>,
                       <<"--hostname">>, instance[1].Address,
                       <<"--port">>, IntToStr(instance[1].Port),
                       <<"--username">>, argv[2],
                       <<"--region">>, <<"eu-central-1">> >>

\* C7: resolving a command twice in one run returns the same result both
\* times, whatever has changed in the search path or on disk in between.
C7_WhichIdempotent ==
    \A i, j \in 1..Len(whichLog) :
        whichLog[i][1] = whichLog[j][1] => whichLog[i][2] = whichLog[j][2]

C7_Witness ==
    \E i, j \in 1..Len(whichLog) :
        /\ i < j
        /\ whichLog[i][1] = whichLog[j][1]
        /\ ~whichLog[i][2].found
        /\ ~whichLog[i][3]
        /\ whichLog[j][3]

\* C8: invoked without an argument, the script writes the usage message to
\* stderr and exits with code 1; it resolves no path and starts no subprocess.
C8_MissingArgument ==
    Len(argv) < 2 =>
        /\ whichLog = <<>>
        /\ cache = <<>>
        /\ started = <<>>
        /\ stdout = <<>>
        /\ pc \in {"start", "exited"}
        /\ Exited => exitCode = 1 /\ stderr = <<UsageMessage(argv[1])>>

C8_Witness ==
    /\ Len(argv) < 2
    /\ Exited
    /\ stderr # <<>>

\* C9: the subprocesses are started in the order discovery, picker, token,
\* each at most once and only after the one before has exited and its output
\* has been consumed; no two subprocesses are alive at the same time.
C9_StageOrder ==
    /\ Cardinality(alive) <= 1
    /\ started = SubSeq(<<"discovery", "picker", "token">>, 1, Len(started))
    /\ "picker" \in StartedSet =>
            /\ "discovery" \notin alive
            /\ dStatus = 0
            /\ Len(instances) = Len(dOut)
    /\ "token" \in StartedSet =>
            /\ "picker" \notin alive
            /\ pkOut = <<>>
            /\ stdoutPipe = <<>>
            /\ instance_name # <<>>

C9_Witness ==
    /\ started = <<"discovery", "picker", "token">>
    /\ Exited
    /\ exitCode = 0

\* A tool is running with its input closed (the picker's input is the pipe
\* the script closes; the other two tools are given none).
ToolRunning ==
    \/ "discovery" \in alive
    \/ "picker" \in alive /\ stdinClosed
    \/ "token" \in alive

\* C10: if every tool exits once its input is closed, every run terminates,
\* printing a token and exiting 0 or exiting non-zero.  A closed input stays
\* closed and a tool that has exited stays so: a run breaks the hypothesis
\* exactly when from some point on a tool is running with its input closed,
\* forever.
C10_Termination ==
    \/ <>(Exited /\ ((exitCode = 0 /\ stdout # <<>>) \/ exitCode > 0))
    \/ <>[]ToolRunning

C10_Witness ==
    /\ Exited
    /\ exitCode = 0
    /\ stdout = TokenOutput \o <<"\n">>
    /\ pkPhase = "exited"
    /\ stdinData # <<>>

====
